---- MODULE Spec2Model ----
(***************************************************************************)
(* A model of stark-vdf (src/main.rs): the sequential VDF evaluator, the   *)
(* trace builder, the AIR (transition constraint and boundary assertions)  *)
(* and the prove / verify run of main.                                     *)
(*                                                                         *)
(* The field Felt is winterfell's f128, the integers modulo                *)
(* p = 2^128 - 45 * 2^40 + 1.  The model keeps the structure of the field  *)
(* and scales its size: M is a prime with M % 3 = 2, as p is, so that      *)
(* cubing is a permutation of the field, and INV_ALPHA is derived from M   *)
(* by the same formula that gives the literal of main.rs from p:           *)
(*   226854911280625642308916371969163307691 = (2 * (p - 1) + 1) / 3.      *)
(*                                                                         *)
(* The proving engine (winterfell) is outside the repository.  It is       *)
(* modelled by what the AIR of main.rs makes it check: a proof carries the *)
(* trace it commits to, and verification accepts exactly when the AIR      *)
(* built from the given public inputs holds of that trace.  The engine's   *)
(* own limits on trace lengths are not modelled.                           *)
(***************************************************************************)
EXTENDS Integers, Sequences, FiniteSets, TLC

VARIABLES pc, seed, n, state, iter, result, trace, proof, parsed_proof,
          pub_inputs, outcome, panic_msg, log, prove_calls, verify_calls,
          frame, dir, samples

vars == <<pc, seed, n, state, iter, result, trace, proof, parsed_proof,
          pub_inputs, outcome, panic_msg, log, prove_calls, verify_calls,
          frame, dir, samples>>

\* variables of the sampling of the transition constraint (DegreeSpec only)
degree_vars == <<frame, dir, samples>>

(***************************************************************************)
(* Bounds of the model                                                     *)
(***************************************************************************)
\* index of the model's field modulus in Primes
FieldIdx == 1
\* largest trace length n of a run
MaxN == 4

(***************************************************************************)
(* Field arithmetic (winterfell math::fields::f128, scaled)                *)
(***************************************************************************)
\* primes p with p % 3 = 2, as the modulus of f128
Primes == <<47, 53, 59>>
M == Primes[FieldIdx]
Field == 0 .. (M - 1)
\* a Felt variable that holds no value yet
Unset == M

ALPHA == 3
INV_ALPHA == (2 * (M - 1) + 1) \div 3
\* Felt::new(42)
FORTY_TWO == 42 % M

Add(a, b) == (a + b) % M
Sub(a, b) == (a + M - b) % M
Mul(a, b) == (a * b) % M

\* FieldElement::exp: square and multiply
RECURSIVE Exp(_, _)
Exp(b, e) ==
    IF e = 0 THEN 1 % M
    ELSE IF e % 2 = 0 THEN Exp(Mul(b, b), e \div 2)
    ELSE Mul(b, Exp(Mul(b, b), e \div 2))

\* trace.get(0, step): column 0, rows counted from 0
Get(t, step) == t[step + 1]

(***************************************************************************)
(* vdf (main.rs 79-85)                                                     *)
(***************************************************************************)
\* an evaluator that adds the constant instead of subtracting it
VdfStepAdds(s) == Exp(Add(s, FORTY_TWO), INV_ALPHA)
\* the loop body: state = (state - FORTY_TWO).exp(INV_ALPHA)
VdfStep(s) == Exp(Sub(s, FORTY_TWO), INV_ALPHA)

\* the loop range 0..(n - 1)
VdfIters(len) == len - 1

\* vdf as a function of its inputs
RECURSIVE VdfFrom(_, _)
VdfFrom(s, k) == IF k = 0 THEN s ELSE VdfFrom(VdfStep(s), k - 1)
Vdf(s, len) == VdfFrom(s, VdfIters(len))

(***************************************************************************)
(* VdfProver::build_trace (main.rs 162-173)                                *)
(***************************************************************************)
\* a builder that raises to ALPHA instead of INV_ALPHA
BuildStepCubes(s) == Exp(Sub(s, FORTY_TWO), ALPHA)
\* the loop body: state = (state - FORTY_TWO).exp(INV_ALPHA)
BuildStep(s) == Exp(Sub(s, FORTY_TWO), INV_ALPHA)

\* the loop range 0..(n - 1)
BuildIters(len) == len - 1

\* build_trace as a function of its inputs
RECURSIVE BuildFrom(_, _, _)
BuildFrom(t, s, k) ==
    IF k = 0 THEN t
    ELSE BuildFrom(Append(t, BuildStep(s)), BuildStep(s), k - 1)
BuildTrace(s, len) == BuildFrom(<<s>>, s, BuildIters(len))

(***************************************************************************)
(* VdfInputs, VdfAir (main.rs 91-148)                                      *)
(***************************************************************************)
NoInputs == [seed |-> Unset, result |-> Unset]
VdfInputs == [seed : Field, result : Field]

\* TransitionConstraintDegree::new(3)
DeclaredDegree == 3

\* VdfAir::new
NewAir(trace_length, inputs) ==
    [trace_length |-> trace_length,
     degrees |-> <<DeclaredDegree>>,
     seed |-> inputs.seed,
     result |-> inputs.result]

\* a constraint written in the forward direction's sign: current + 42
EvalTransitionAdds(current_state, next_state) ==
    Sub(current_state, Sub(Exp(next_state, ALPHA), FORTY_TWO))
\* a constraint that squares the next state
EvalTransitionSquares(current_state, next_state) ==
    Sub(current_state, Add(Exp(next_state, ALPHA - 1), FORTY_TWO))
\* VdfAir::evaluate_transition:
\*   result[0] = current_state - (next_state.exp(ALPHA) + FORTY_TWO)
EvalTransition(current_state, next_state) ==
    Sub(current_state, Add(Exp(next_state, ALPHA), FORTY_TWO))

\* assertions that pin only the first row
GetAssertionsSeedOnly(air) ==
    <<[column |-> 0, step |-> 0, value |-> air.seed]>>
\* VdfAir::get_assertions
GetAssertions(air) ==
    LET last_step == air.trace_length - 1
    IN  <<[column |-> 0, step |-> 0, value |-> air.seed],
          [column |-> 0, step |-> last_step, value |-> air.result]>>

\* VdfProver::get_pub_inputs reading the row before the last
GetPubInputsShort(t) ==
    LET last_step == Len(t) - 1
    IN  [seed |-> Get(t, 0), result |-> Get(t, last_step - 1)]
\* VdfProver::get_pub_inputs (main.rs 181-187)
GetPubInputs(t) ==
    LET last_step == Len(t) - 1
    IN  [seed |-> Get(t, 0), result |-> Get(t, last_step)]

(***************************************************************************)
(* The engine, as far as the AIR decides it                                *)
(***************************************************************************)
\* every boundary assertion of the AIR holds of trace t
AssertionsHold(air, t) ==
    \A k \in 1 .. Len(GetAssertions(air)) :
        LET a == GetAssertions(air)[k]
        IN  a.step < Len(t) /\ Get(t, a.step) = a.value

\* the transition constraint is zero on every pair of consecutive rows of t
TransitionsHold(air, t) ==
    \A step \in 0 .. (Len(t) - 2) :
        EvalTransition(Get(t, step), Get(t, step + 1)) = 0

\* what the engine checks of a trace t against given public inputs: the AIR
\* is built for the trace's length (VdfAir::new) and must hold of t
AirAccepts(t, inputs) ==
    LET air == NewAir(Len(t), inputs)
    IN  Len(t) >= 2 /\ AssertionsHold(air, t) /\ TransitionsHold(air, t)

NoProof == [trace_length |-> 0, trace |-> <<>>, pub_inputs |-> NoInputs]

\* Prover::prove: the public inputs are read from the trace (get_pub_inputs)
\* and bound into the proof with the trace's length and the trace
MakeProof(t) ==
    [trace_length |-> Len(t), trace |-> t, pub_inputs |-> GetPubInputs(t)]

\* StarkProof::to_bytes: the length, the rows, the two public inputs
ToBytes(p) ==
    <<p.trace_length>> \o p.trace \o <<p.pub_inputs.seed, p.pub_inputs.result>>

\* StarkProof::from_bytes
FromBytes(b) ==
    LET len == b[1]
    IN  [trace_length |-> len,
         trace |-> SubSeq(b, 2, len + 1),
         pub_inputs |-> [seed |-> b[len + 2], result |-> b[len + 3]]]

\* winterfell::verify::<VdfAir>(proof, pub_inputs)
VerifyProof(p, inputs) ==
    /\ p.trace_length = Len(p.trace)
    /\ AirAccepts(p.trace, inputs)

\* the errors Prover::prove may return
ProverErrors == {"OutOfMemory", "UnsatisfiedTransitionConstraint"}

(***************************************************************************)
(* main (main.rs 19-74), one action per step                               *)
(***************************************************************************)
NoDegree == /\ frame = [current |-> 0, next |-> 0]
            /\ dir = [current |-> 0, next |-> 0]
            /\ samples = <<>>

Init ==
    /\ pc = "main"
    /\ seed \in Field
    /\ n \in 2 .. MaxN
    /\ state = Unset
    /\ iter = 0
    /\ result = Unset
    /\ trace = <<>>
    /\ proof = NoProof
    /\ parsed_proof = NoProof
    /\ pub_inputs = NoInputs
    /\ outcome = "running"
    /\ panic_msg = <<>>
    /\ log = <<>>
    /\ prove_calls = 0
    /\ verify_calls = 0
    /\ NoDegree

\* main.rs 25, 80: result = vdf(seed, n) is entered
CallVdf ==
    /\ pc = "main"
    /\ pc' = "vdf_loop"
    /\ state' = seed
    /\ iter' = 0
    /\ log' = Append(log, "evaluate")
    /\ UNCHANGED <<seed, n, result, trace, proof, parsed_proof, pub_inputs,
                   outcome, panic_msg, prove_calls, verify_calls, degree_vars>>

\* main.rs 81-83: one iteration of vdf's loop
VdfIter ==
    /\ pc = "vdf_loop"
    /\ iter < VdfIters(n)
    /\ state' = VdfStep(state)
    /\ iter' = iter + 1
    /\ UNCHANGED <<pc, seed, n, result, trace, proof, parsed_proof, pub_inputs,
                   outcome, panic_msg, log, prove_calls, verify_calls,
                   degree_vars>>

\* main.rs 84, 25: vdf returns and main binds result
VdfReturn ==
    /\ pc = "vdf_loop"
    /\ iter >= VdfIters(n)
    /\ result' = state
    /\ pc' = "build"
    /\ UNCHANGED <<seed, n, state, iter, trace, proof, parsed_proof,
                   pub_inputs, outcome, panic_msg, log, prove_calls,
                   verify_calls, degree_vars>>

\* main.rs 44, 163-166: build_trace is entered and pushes row 0
CallBuildTrace ==
    /\ pc = "build"
    /\ pc' = "build_loop"
    /\ state' = seed
    /\ iter' = 0
    /\ trace' = <<seed>>
    /\ log' = Append(log, "build")
    /\ UNCHANGED <<seed, n, result, proof, parsed_proof, pub_inputs, outcome,
                   panic_msg, prove_calls, verify_calls, degree_vars>>

\* main.rs 167-170: one iteration of build_trace's loop
BuildIter ==
    /\ pc = "build_loop"
    /\ iter < BuildIters(n)
    /\ state' = BuildStep(state)
    /\ trace' = Append(trace, state')
    /\ iter' = iter + 1
    /\ UNCHANGED <<pc, seed, n, result, proof, parsed_proof, pub_inputs,
                   outcome, panic_msg, log, prove_calls, verify_calls,
                   degree_vars>>

\* a main without its assert_eq!
AfterBuildNoCheck == "prove"
\* the step of main that follows build_trace: the assert_eq! of line 46
AfterBuild == "crosscheck"

\* main.rs 172, 44: build_trace returns the table
BuildReturn ==
    /\ pc = "build_loop"
    /\ iter >= BuildIters(n)
    /\ pc' = AfterBuild
    /\ UNCHANGED <<seed, n, state, iter, result, trace, proof, parsed_proof,
                   pub_inputs, outcome, panic_msg, log, prove_calls,
                   verify_calls, degree_vars>>

\* main.rs 46: assert_eq!(result, trace.get(0, n - 1))
CrossCheck ==
    /\ pc = "crosscheck"
    /\ log' = Append(log, "crosscheck")
    /\ IF result = Get(trace, n - 1)
       THEN /\ pc' = "prove"
            /\ UNCHANGED <<outcome, panic_msg>>
       ELSE /\ pc' = "panicked"
            /\ outcome' = "CrossCheckMismatch"
            /\ panic_msg' = <<"assertion failed", result, Get(trace, n - 1)>>
    /\ UNCHANGED <<seed, n, state, iter, result, trace, proof, parsed_proof,
                   pub_inputs, prove_calls, verify_calls, degree_vars>>

\* main.rs 50: prover.prove(trace) returns Ok(proof)
Prove ==
    /\ pc = "prove"
    /\ prove_calls' = prove_calls + 1
    /\ proof' = MakeProof(trace)
    /\ pc' = "serialize"
    /\ log' = Append(log, "prove")
    /\ UNCHANGED <<seed, n, state, iter, result, trace, parsed_proof,
                   pub_inputs, outcome, panic_msg, verify_calls, degree_vars>>

\* a main that asks for the proof again after an error
AfterProveErrRetries == "prove"
\* where main is after unwrap() met an Err: the panic ends the run
AfterProveErr == "panicked"

\* main.rs 50: prover.prove(trace) returns Err(e) and unwrap() panics
ProveFail ==
    /\ pc = "prove"
    /\ \E e \in ProverErrors :
          panic_msg' = <<"called Result::unwrap() on an Err value", e>>
    /\ prove_calls' = prove_calls + 1
    /\ outcome' = "ProveFailed"
    /\ pc' = AfterProveErr
    /\ log' = Append(log, "prove")
    /\ UNCHANGED <<seed, n, state, iter, result, trace, proof, parsed_proof,
                   pub_inputs, verify_calls, degree_vars>>

\* main.rs 54-60: to_bytes, from_bytes, assert_eq!(proof, parsed_proof)
RoundTrip ==
    /\ pc = "serialize"
    /\ parsed_proof' = FromBytes(ToBytes(proof))
    /\ log' = Append(log, "roundtrip")
    /\ IF parsed_proof' = proof
       THEN /\ pc' = "pub_inputs"
            /\ UNCHANGED <<outcome, panic_msg>>
       ELSE /\ pc' = "panicked"
            /\ outcome' = "RoundTripMismatch"
            /\ panic_msg' = <<"assertion failed", "proof", "parsed_proof">>
    /\ UNCHANGED <<seed, n, state, iter, result, trace, proof, pub_inputs,
                   prove_calls, verify_calls, degree_vars>>

\* main.rs 63: let pub_inputs = VdfInputs { seed, result }
InitPubInputs ==
    /\ pc = "pub_inputs"
    /\ pub_inputs' = [seed |-> seed, result |-> result]
    /\ pc' = "verify"
    /\ UNCHANGED <<seed, n, state, iter, result, trace, proof, parsed_proof,
                   outcome, panic_msg, log, prove_calls, verify_calls,
                   degree_vars>>

\* main.rs 67-73: winterfell::verify::<VdfAir>(proof, pub_inputs) and the match
\* on its result: Ok(_) or Err(msg), both printed, neither a panic
Verify ==
    /\ pc = "verify"
    /\ verify_calls' = verify_calls + 1
    /\ outcome' = IF VerifyProof(proof, pub_inputs)
                  THEN "Verified" ELSE "Rejected"
    /\ pc' = "done"
    /\ log' = Append(log, "verify")
    /\ UNCHANGED <<seed, n, state, iter, result, trace, proof, parsed_proof,
                   pub_inputs, panic_msg, prove_calls, degree_vars>>

Next ==
    \/ CallVdf
    \/ VdfIter
    \/ VdfReturn
    \/ CallBuildTrace
    \/ BuildIter
    \/ BuildReturn
    \/ CrossCheck
    \/ Prove
    \/ RoundTrip
    \/ InitPubInputs
    \/ Verify

Spec == Init /\ [][Next]_vars

\* main is one sequential thread: it takes its next step whenever it has one
FairSpec == Spec /\ WF_vars(Next)

(***************************************************************************)
(* The run with an engine that may fail to prove                           *)
(***************************************************************************)
NextFault == Next \/ ProveFail

FaultSpec == Init /\ [][NextFault]_vars

(***************************************************************************)
(* The run with public inputs altered before verification                  *)
(***************************************************************************)
\* the verifier is given the pair of main.rs 63 with at most one of its two
\* field elements replaced
TamperPubInputs ==
    /\ pc = "pub_inputs"
    /\ pub_inputs' \in {p \in VdfInputs : p.seed = seed \/ p.result = result}
    /\ pc' = "verify"
    /\ UNCHANGED <<seed, n, state, iter, result, trace, proof, parsed_proof,
                   outcome, panic_msg, log, prove_calls, verify_calls,
                   degree_vars>>

NextTamper ==
    \/ CallVdf
    \/ VdfIter
    \/ VdfReturn
    \/ CallBuildTrace
    \/ BuildIter
    \/ BuildReturn
    \/ CrossCheck
    \/ Prove
    \/ RoundTrip
    \/ TamperPubInputs
    \/ Verify

TamperSpec == Init /\ [][NextTamper]_vars

(***************************************************************************)
(* The AIR against an arbitrary trace and arbitrary public inputs          *)
(*                                                                         *)
(* The rows of a candidate trace of length n are chosen freely, one at a   *)
(* time.  A row that breaks a boundary assertion at its step, or the       *)
(* transition constraint with the row before it, settles the verdict: no   *)
(* continuation of a broken prefix satisfies the AIR, so the rows after it *)
(* are not enumerated.                                                     *)
(***************************************************************************)
InitAir ==
    /\ pc = "air_rows"
    /\ seed = Unset
    /\ n \in 2 .. MaxN
    /\ state = Unset
    /\ iter = 0
    /\ result = Unset
    /\ trace = <<>>
    /\ proof = NoProof
    /\ parsed_proof = NoProof
    /\ pub_inputs \in VdfInputs
    /\ outcome = "running"
    /\ panic_msg = <<>>
    /\ log = <<>>
    /\ prove_calls = 0
    /\ verify_calls = 0
    /\ NoDegree

\* the last row of t breaks an assertion of the AIR at its step
\* (get_assertions), or the transition constraint with the row before it
\* (evaluate_transition)
RowBreaksAir(air, t) ==
    LET step == Len(t) - 1
    IN  \/ \E k \in 1 .. Len(GetAssertions(air)) :
              /\ GetAssertions(air)[k].step = step
              /\ GetAssertions(air)[k].value # Get(t, step)
        \/ /\ step > 0
           /\ EvalTransition(Get(t, step - 1), Get(t, step)) # 0

\* the next row of the candidate trace, and the verdict once it is settled
AirPushRow ==
    /\ pc = "air_rows"
    /\ \E v \in Field :
          LET t == Append(trace, v)
              air == NewAir(n, pub_inputs)
          IN  /\ trace' = t
              /\ IF RowBreaksAir(air, t)
                 THEN pc' = "air_done" /\ outcome' = "Rejected"
                 ELSE IF Len(t) = n
                      THEN pc' = "air_done" /\ outcome' = "Verified"
                      ELSE UNCHANGED <<pc, outcome>>
    /\ UNCHANGED <<seed, n, state, iter, result, proof, parsed_proof,
                   pub_inputs, panic_msg, log, prove_calls, verify_calls,
                   degree_vars>>

NextAir == AirPushRow

AirSpec == InitAir /\ [][NextAir]_vars

(***************************************************************************)
(* The transition constraint sampled along lines of the frame space        *)
(***************************************************************************)
\* along current, along next, and along both
Dirs == {[current |-> 1, next |-> 0],
         [current |-> 0, next |-> 1],
         [current |-> 1, next |-> 1]}

InitDegree ==
    /\ pc = "sampling"
    /\ seed = Unset
    /\ n = 2
    /\ state = Unset
    /\ iter = 0
    /\ result = Unset
    /\ trace = <<>>
    /\ proof = NoProof
    /\ parsed_proof = NoProof
    /\ pub_inputs = NoInputs
    /\ outcome = "running"
    /\ panic_msg = <<>>
    /\ log = <<>>
    /\ prove_calls = 0
    /\ verify_calls = 0
    /\ frame \in [current : Field, next : Field]
    /\ dir \in Dirs
    /\ samples = <<>>

\* evaluate_transition on the k-th frame of the line through frame along
\* dir; DeclaredDegree + 2 samples decide a degree of DeclaredDegree
SampleTransition ==
    /\ pc = "sampling"
    /\ Len(samples) < DeclaredDegree + 2
    /\ LET k == Len(samples)
       IN  samples' = Append(samples,
              EvalTransition(Add(frame.current, Mul(k, dir.current)),
                             Add(frame.next, Mul(k, dir.next))))
    /\ UNCHANGED <<pc, seed, n, state, iter, result, trace, proof,
                   parsed_proof, pub_inputs, outcome, panic_msg, log,
                   prove_calls, verify_calls, frame, dir>>

NextDegree == SampleTransition

DegreeSpec == InitDegree /\ [][NextDegree]_vars

(***************************************************************************)
(* Properties                                                              *)
(***************************************************************************)
\* the transition of the data model: transition(x) = (x - 42)^INV_ALPHA
Transition(x) == Exp(Sub(x, FORTY_TWO), INV_ALPHA)

\* the positions of main after build_trace has returned
BuiltPcs == {"crosscheck", "prove", "serialize", "pub_inputs", "verify",
             "done", "panicked"}
\* the positions of main after prove has returned a proof
ProvedPcs == {"serialize", "pub_inputs", "verify", "done"}

\* the steps of a run, in order
RunOrder == <<"evaluate", "build", "crosscheck", "prove", "roundtrip", "verify">>

\* C1: once both have returned, the value vdf(seed, n) returned equals row
\* n - 1 of the trace build_trace(seed, n) returned, and the assert_eq! of
\* main never fires.
C1_EvaluatorAgreesWithTrace ==
    /\ outcome # "CrossCheckMismatch"
    /\ pc \in BuiltPcs => result = Get(trace, n - 1)

\* C1 witness: the cross-check has passed on the longest trace, whose last
\* row differs from the seed
C1_Witness ==
    /\ pc = "prove"
    /\ n = MaxN
    /\ result = Get(trace, n - 1)
    /\ result # seed

\* the rows pushed so far: row 0 is the seed, each later row is the
\* transition of the row before it, and there are never more than n
TraceRowsOk ==
    /\ Len(trace) <= n
    /\ trace # <<>> => trace[1] = seed
    /\ \A i \in 2 .. Len(trace) : trace[i] = Transition(trace[i - 1])
    /\ pc = "build_loop" => Len(trace) = iter + 1 /\ state = trace[Len(trace)]
    /\ pc \in BuiltPcs => Len(trace) = n

\* a step of the run keeps every row already pushed
RowsKept ==
    /\ Len(trace') >= Len(trace)
    /\ \A k \in 1 .. Len(trace) : trace'[k] = trace[k]

\* C2: build_trace returns exactly n rows, row 0 the seed and row i the
\* transition (row[i-1] - 42)^INV_ALPHA of row i - 1; this holds of the rows
\* pushed so far after every iteration, and a pushed row never changes.
C2_TraceIsTheChain == []TraceRowsOk /\ [][RowsKept]_vars

\* C2 witness: build_trace has returned its longest trace
C2_Witness ==
    /\ pc = "crosscheck"
    /\ n = MaxN
    /\ Len(trace) = MaxN

\* C3: the transition constraint is zero on every pair of consecutive rows
\* the forward step produced, at every step 0 .. n - 2 of the built trace.
C3_ConstraintZeroOnBuiltRows ==
    \A step \in 0 .. (Len(trace) - 2) :
        EvalTransition(Get(trace, step), Get(trace, step + 1)) = 0

\* C3 witness: the exponents are inverse modulo the group order, and the
\* forward step was taken from current = 42, where current - 42 = 0
C3_Witness ==
    /\ (ALPHA * INV_ALPHA) % (M - 1) = 1
    /\ pc \in BuiltPcs
    /\ \E step \in 0 .. (n - 2) :
          /\ Get(trace, step) = FORTY_TWO
          /\ Get(trace, step + 1) = 0

C6_AlteredInputsRejected ==
    (pc = "done" /\ pub_inputs # [seed |-> seed, result |-> result])
        => outcome = "Rejected"

\* C6 witness: both alterations were verified and rejected (one per state)
C6_Witness ==
    /\ pc = "done"
    /\ outcome = "Rejected"
    /\ pub_inputs.seed = seed
    /\ pub_inputs.result # result
    /\ n = MaxN

\* C8: when the engine returns an error, the run ends there with that error:
\* one prove call, no second one, no serialization, no verification, and an
\* outcome that is neither a rejection nor a cross-check mismatch.
C8_ProveFailureEndsTheRun ==
    /\ prove_calls <= 1
    /\ (outcome = "ProveFailed" \/ (panic_msg # <<>> /\ panic_msg[2] \in ProverErrors))
         => /\ pc = "panicked"
            /\ outcome = "ProveFailed"
            /\ prove_calls = 1
            /\ verify_calls = 0
            /\ log = SubSeq(RunOrder, 1, 4)
            /\ proof = NoProof
            /\ parsed_proof = NoProof
            /\ Len(panic_msg) = 2
            /\ panic_msg[2] \in ProverErrors
    /\ outcome \in {"Verified", "Rejected"} => pc = "done" /\ panic_msg = <<>>
    /\ outcome = "CrossCheckMismatch" => panic_msg[1] = "assertion failed"

\* C8 witness: the engine failed for lack of memory and the run stopped
C8_Witness ==
    /\ outcome = "ProveFailed"
    /\ pc = "panicked"
    /\ panic_msg[2] = "OutOfMemory"

\* C9: the steps of a run come in the order evaluate, build, cross-check,
\* prove, round trip, verify; there is one prove call and at most one verify
\* call; prove is called only after the cross-check passed, and a mismatch
\* ends the run with no proof requested or verified.
C9_StepsInOrder ==
    /\ log = SubSeq(RunOrder, 1, Len(log))
    /\ prove_calls = Cardinality({i \in 1 .. Len(log) : log[i] = "prove"})
    /\ verify_calls = Cardinality({i \in 1 .. Len(log) : log[i] = "verify"})
    /\ prove_calls <= 1
    /\ verify_calls <= 1
    /\ pc = "done" => log = RunOrder /\ prove_calls = 1 /\ verify_calls = 1
    /\ prove_calls > 0 => result = Get(trace, n - 1)
    /\ outcome = "CrossCheckMismatch" => prove_calls = 0 /\ verify_calls = 0

\* C9 witness: a run went through all six steps
C9_Witness ==
    /\ pc = "done"
    /\ log = RunOrder
    /\ n = MaxN

\* C10: the pair main hands to the verifier, (seed, vdf(seed, n)), is the pair
\* get_pub_inputs read from the first and last cell of the trace and bound
\* into the proof, and the trace the prover read is the trace as built.
C10_SamePublicInputs ==
    /\ pc \in ProvedPcs =>
          /\ proof.trace = trace
          /\ proof.pub_inputs = [seed |-> Get(trace, 0), result |-> Get(trace, n - 1)]
          /\ proof.pub_inputs = [seed |-> seed, result |-> result]
    /\ pc \in {"verify", "done"} => pub_inputs = proof.pub_inputs
    /\ pc \in {"crosscheck", "prove"} =>
          /\ Len(trace) = n
          /\ trace[1] = seed
          /\ \A i \in 2 .. n : trace[i] = Transition(trace[i - 1])

\* C10 witness: the verifier was called with the pair bound into the proof
C10_Witness ==
    /\ pc = "done"
    /\ pub_inputs = proof.pub_inputs
    /\ pub_inputs.result # pub_inputs.seed
    /\ n = MaxN

\* C4: a trace of n rows satisfies the two boundary assertions and the
\* transition constraint for the public pair (seed, result) exactly when it is
\* build_trace(seed, n) and result = vdf(seed, n).
C4_AirCharacterizesTheTrace ==
    /\ outcome = "Verified" =>
          /\ Len(trace) = n
          /\ AirAccepts(trace, pub_inputs)
          /\ trace = BuildTrace(pub_inputs.seed, n)
          /\ pub_inputs.result = Vdf(pub_inputs.seed, n)
    /\ outcome = "Rejected" =>
          /\ Len(trace) = n => ~AirAccepts(trace, pub_inputs)
          /\ ~(/\ trace = SubSeq(BuildTrace(pub_inputs.seed, n), 1, Len(trace))
               /\ pub_inputs.result = Vdf(pub_inputs.seed, n))

\* C4 witness: a candidate of the longest length was accepted
C4_Witness ==
    /\ pc = "air_done"
    /\ outcome = "Verified"
    /\ n = MaxN
    /\ Len(trace) = MaxN
    /\ pub_inputs.result # pub_inputs.seed

\* the k-th finite difference of the samples s at their first point
RECURSIVE Diff(_, _)
Diff(s, k) ==
    IF k = 0 THEN s[1]
    ELSE Diff([i \in 1 .. (Len(s) - 1) |-> Sub(s[i + 1], s[i])], k - 1)

\* C7: the transition constraint has degree exactly 3 in the trace variables
\* (its fourth differences vanish along every line, its third do not along
\* next; it is linear in current), and the declared degree is that degree,
\* which is ALPHA.
C7_DeclaredDegreeIsTheDegree ==
    /\ DeclaredDegree = ALPHA
    /\ Len(samples) = DeclaredDegree + 2 =>
          /\ Diff(samples, DeclaredDegree + 1) = 0
          /\ dir.next # 0 => Diff(samples, DeclaredDegree) # 0
          /\ dir.next = 0 => Diff(samples, 1) # 0 /\ Diff(samples, 2) = 0

\* C7 witness: the constraint was sampled along next from a frame
C7_Witness ==
    /\ Len(samples) = DeclaredDegree + 2
    /\ dir = [current |-> 0, next |-> 1]
    /\ frame.next = FORTY_TWO
    /\ Diff(samples, DeclaredDegree) # 0

====
